---- MODULE Spec2Model ----
(***************************************************************************)
(* WrapNum<T> (src/src/lib.rs): a value bound to a window [min, max] whose *)
(* arithmetic wraps back into the window.  T is modelled as a Width-bit    *)
(* integer type, signed or unsigned, with Rust's primitive arithmetic:     *)
(* `+` and `-` panic on overflow when the build has overflow checks and    *)
(* wrap (two's complement) when it has none; `%` is the truncating         *)
(* remainder, panics on a zero divisor and on MIN % -1.                    *)
(***************************************************************************)
EXTENDS Integers, Sequences, FiniteSets, TLC

VARIABLES
    signed,           \* T is a signed integer type (i8, ...) or not (u8, ...)
    overflow_checks,  \* the build panics on arithmetic overflow (debug) or wraps (release)
    x,                \* the WrapNum the program holds: [value, min, max]
    y,                \* a second WrapNum: the right operand (its value is the scalar operand)
    born,             \* x's bounds as constructed, and whether min <= value <= max held then
    last,             \* the last call: [op, args, lhs (x before it), ovf, res]
    panicked,         \* the last call panicked; the program has aborted
    k                 \* how often the repeated step (`+= 1`, wrapped_result) has run

vars == <<signed, overflow_checks, x, y, born, last, panicked, k>>

\* Bit width of T.
Width == 3
\* Longest run of `+= 1` steps followed.
MaxIncr == 18
\* Number of successive applications of wrapped_result followed.
MaxApply == 2

Pow2(n) == 2 ^ n

-----------------------------------------------------------------------------
(* The integer type T and its primitive arithmetic.                        *)

TMin == IF signed THEN 0 - Pow2(Width - 1) ELSE 0
TMax == IF signed THEN Pow2(Width - 1) - 1 ELSE Pow2(Width) - 1
T == TMin .. TMax

InT(e) == TMin <= e /\ e <= TMax

\* The value of T that the exact integer e reduces to (two's complement).
Wrap(e) ==
    LET r == e % Pow2(Width)
    IN IF r > TMax THEN r - Pow2(Width) ELSE r

Abs(e) == IF e < 0 THEN 0 - e ELSE e

\* Truncating remainder (sign of the dividend), divisor non-zero.
TruncRem(p, q) ==
    LET r == Abs(p) % Abs(q)
    IN IF p < 0 THEN 0 - r ELSE r

\* An evaluated expression: its value in T, whether some exact intermediate
\* result fell outside T (ovf), and whether evaluation panicked.
Lit(v) == [val |-> v, ovf |-> FALSE, panic |-> FALSE]

Arith(p, q, e) ==
    IF p.panic \/ q.panic
    THEN [val |-> 0, ovf |-> p.ovf \/ q.ovf, panic |-> TRUE]
    ELSE [val |-> Wrap(e),
          ovf |-> p.ovf \/ q.ovf \/ ~InT(e),
          panic |-> overflow_checks /\ ~InT(e)]

\* p + q and p - q on T.
TAdd(p, q) == Arith(p, q, p.val + q.val)
TSub(p, q) == Arith(p, q, p.val - q.val)

\* p % q on T.
TRem(p, q) ==
    IF p.panic \/ q.panic
    THEN [val |-> 0, ovf |-> p.ovf \/ q.ovf, panic |-> TRUE]
    ELSE IF q.val = 0
    THEN [val |-> 0, ovf |-> p.ovf \/ q.ovf, panic |-> TRUE]
    ELSE IF signed /\ q.val = 0 - 1 /\ p.val = TMin
    THEN [val |-> 0, ovf |-> TRUE, panic |-> TRUE]
    ELSE [val |-> TruncRem(p.val, q.val), ovf |-> p.ovf \/ q.ovf, panic |-> FALSE]

-----------------------------------------------------------------------------
(* WrapNum<T>.                                                             *)

WrapNum(value, min, max) == [value |-> value, min |-> min, max |-> max]

\* The outcome of a call that returns a WrapNum: the evaluation e of the value
\* it stores (taken when e did not panic) and the WrapNum it builds.
Returned(e, w) == [panic |-> e.panic, ovf |-> e.ovf, w |-> w]
Built(w) == [panic |-> FALSE, ovf |-> FALSE, w |-> w]
Aborted == [panic |-> TRUE, ovf |-> FALSE, w |-> WrapNum(0, 0, 0)]

\* A faulty wrapped_result that takes the remainder of value, not of value - min.
wrapped_result_no_offset(value, min, max) ==
    LET range == TSub(Lit(max), Lit(min))
    IN TAdd(TRem(value, range), Lit(min))

\* fn wrapped_result(value, min, max): (value - min) % range + min.
wrapped_result(value, min, max) ==
    LET range == TSub(Lit(max), Lit(min))
    IN TAdd(TRem(TSub(value, Lit(min)), range), Lit(min))

\* A faulty Add that builds its result in the right operand's window.
add_rhs_bounds(self, rhs) ==
    LET wrapped_value ==
            wrapped_result(TAdd(Lit(self.value), Lit(rhs.value)), self.min, self.max)
    IN Returned(wrapped_value, WrapNum(wrapped_value.val, rhs.min, rhs.max))

\* impl Add for WrapNum<T>: self + rhs, rhs a WrapNum.
add(self, rhs) ==
    LET wrapped_value ==
            wrapped_result(TAdd(Lit(self.value), Lit(rhs.value)), self.min, self.max)
    IN Returned(wrapped_value, WrapNum(wrapped_value.val, self.min, self.max))

\* impl Add<T> for WrapNum<T>: self + rhs, rhs a scalar.
add_scalar(self, rhs) ==
    LET wrapped_value ==
            wrapped_result(TAdd(Lit(self.value), Lit(rhs)), self.min, self.max)
    IN Returned(wrapped_value, WrapNum(wrapped_value.val, self.min, self.max))

\* The intermediate result the three subtractions compute before wrapping.
sub_result(self, rhs) ==
    IF self.value < rhs
    THEN TAdd(TSub(Lit(self.max), Lit(self.min)), TSub(Lit(self.value), Lit(rhs)))
    ELSE TSub(Lit(self.value), Lit(rhs))

\* impl Sub for WrapNum<T>: self - rhs, rhs a WrapNum.
sub(self, rhs) ==
    LET wrapped_value ==
            wrapped_result(sub_result(self, rhs.value), self.min, self.max)
    IN Returned(wrapped_value, WrapNum(wrapped_value.val, self.min, self.max))

\* impl Sub<T> for WrapNum<T>: self - rhs, rhs a scalar.
sub_scalar(self, rhs) ==
    LET wrapped_value == wrapped_result(sub_result(self, rhs), self.min, self.max)
    IN Returned(wrapped_value, WrapNum(wrapped_value.val, self.min, self.max))

\* A faulty AddAssign that stores the sum without wrapping it.
add_assign_unwrapped(self, rhs) ==
    LET result == TAdd(Lit(self.value), Lit(rhs))
    IN Returned(result, [self EXCEPT !.value = result.val])

\* impl AddAssign<T>: self += rhs.
add_assign(self, rhs) ==
    LET result == TAdd(Lit(self.value), Lit(rhs))
        v == wrapped_result(result, self.min, self.max)
    IN Returned(v, [self EXCEPT !.value = v.val])

\* impl SubAssign<T>: self -= rhs.
sub_assign(self, rhs) ==
    LET v == wrapped_result(sub_result(self, rhs), self.min, self.max)
    IN Returned(v, [self EXCEPT !.value = v.val])

\* impl From<T> for WrapNum<T>.
from(value) == Built(WrapNum(value, 0, TMax))

\* impl Default for WrapNum<T>.
default == Built(WrapNum(0, 0, TMax))

\* WrapNum::new: max, the rest from Default.
new(max) == Built([default.w EXCEPT !.max = max])

\* WrapNum::new_max: assert!(!(value > max)).
new_max(value, max) ==
    IF value > max THEN Aborted
    ELSE Built([default.w EXCEPT !.value = value, !.max = max])

\* WrapNum::new_min_max.
new_min_max(value, min, max) ==
    IF value > max THEN Aborted
    ELSE IF value < min THEN Aborted
    ELSE Built(WrapNum(value, min, max))

\* `$max + 1` of the inclusive wrap! forms, evaluated before the constructor runs.
PlusOne(max) == TAdd(Lit(max), Lit(1))

\* wrap!(max)
wrap_max(max) == new(max)

\* wrap!(value, max)
wrap_value_max(value, max) == new_max(value, max)

\* wrap!(value, min, max)
wrap_value_min_max(value, min, max) == new_min_max(value, min, max)

\* wrap!(=max)
wrap_inclusive(max) ==
    LET m == PlusOne(max)
    IN IF m.panic THEN [Aborted EXCEPT !.ovf = TRUE]
       ELSE [new(m.val) EXCEPT !.ovf = m.ovf]

\* wrap!((min)..(max))
wrap_range(min, max) == new_min_max(min, min, max)

\* wrap!((min)..=(max))
wrap_range_inclusive(min, max) ==
    LET m == PlusOne(max)
    IN IF m.panic THEN [Aborted EXCEPT !.ovf = TRUE]
       ELSE [new_min_max(min, min, m.val) EXCEPT !.ovf = m.ovf]

\* A faulty == that compares the whole struct (what #[derive(PartialEq)] would do).
eq_whole_struct(self, other) == self = other

\* impl PartialEq for WrapNum<T>, impl PartialEq<T> for WrapNum<T>, total_eq.
eq(self, other) == self.value = other.value
eq_scalar(self, other) == self.value = other
total_eq(self, other) ==
    self.value = other.value /\ self.min = other.min /\ self.max = other.max

-----------------------------------------------------------------------------
(* Construction: one constructor call builds x.                            *)

NoWrapNum == WrapNum(0, 0, 0)

Call(op, args, lhs, r) ==
    [op |-> op, args |-> args, lhs |-> lhs, ovf |-> r.ovf, res |-> FALSE]

Window(w) == [min |-> w.min, max |-> w.max, valid |-> w.min <= w.value /\ w.value <= w.max]

\* Nothing is constructed yet; T and the build are fixed.
CtorInit ==
    /\ signed \in BOOLEAN
    /\ overflow_checks \in BOOLEAN
    /\ x = NoWrapNum
    /\ y = NoWrapNum
    /\ born = Window(NoWrapNum)
    /\ last = Call("none", <<>>, NoWrapNum, Built(NoWrapNum))
    /\ panicked = FALSE
    /\ k = 0

\* `let x = <constructor call>`: r is what the call returns, or its panic.
Constructed(op, args, r) ==
    /\ last.op = "none"
    /\ x' = r.w
    /\ panicked' = r.panic
    /\ born' = Window(r.w)
    /\ last' = Call(op, args, r.w, r)
    /\ UNCHANGED <<signed, overflow_checks, y, k>>

Default == Constructed("default", <<>>, default)

New == \E max \in T : Constructed("new", <<max>>, new(max))

NewMax == \E value \in T, max \in T : Constructed("new_max", <<value, max>>, new_max(value, max))

NewMinMax ==
    \E value \in T, min \in T, max \in T :
        Constructed("new_min_max", <<value, min, max>>, new_min_max(value, min, max))

From == \E value \in T : Constructed("from", <<value>>, from(value))

WrapMax == \E max \in T : Constructed("wrap_max", <<max>>, wrap_max(max))

WrapInclusive == \E max \in T : Constructed("wrap_inclusive", <<max>>, wrap_inclusive(max))

WrapValueMax ==
    \E value \in T, max \in T :
        Constructed("wrap_value_max", <<value, max>>, wrap_value_max(value, max))

WrapRange ==
    \E min \in T, max \in T : Constructed("wrap_range", <<min, max>>, wrap_range(min, max))

WrapRangeInclusive ==
    \E min \in T, max \in T :
        Constructed("wrap_range_inclusive", <<min, max>>, wrap_range_inclusive(min, max))

WrapValueMinMax ==
    \E value \in T, min \in T, max \in T :
        Constructed("wrap_value_min_max", <<value, min, max>>,
                    wrap_value_min_max(value, min, max))

CtorNext ==
    \/ Default \/ New \/ NewMax \/ NewMinMax \/ From
    \/ WrapMax \/ WrapInclusive \/ WrapValueMax
    \/ WrapRange \/ WrapRangeInclusive \/ WrapValueMinMax

CtorSpec == CtorInit /\ [][CtorNext]_vars

-----------------------------------------------------------------------------
(* Arithmetic: x is any WrapNum a constructor returns, y = T::into(s) any   *)
(* promoted scalar; the scalar operand of x + s, x - s, x += s, x -= s is   *)
(* y's value (impl From<WrapNum<T>> for T).                                 *)

\* Every WrapNum some constructor call returns.
Constructible ==
    LET calls == {default} \cup {new(max) : max \in T}
                 \cup {new_max(value, max) : value \in T, max \in T}
                 \cup {new_min_max(value, min, max) : value \in T, min \in T, max \in T}
                 \cup {from(value) : value \in T}
                 \cup {wrap_inclusive(max) : max \in T}
                 \cup {wrap_range_inclusive(min, max) : min \in T, max \in T}
    IN {r.w : r \in {c \in calls : ~c.panic}}

\* impl From<WrapNum<T>> for T.
into(wrap_num) == wrap_num.value

Init ==
    /\ signed \in BOOLEAN
    /\ overflow_checks \in BOOLEAN
    /\ x \in Constructible
    /\ y \in {from(s).w : s \in T}
    /\ born = Window(x)
    /\ last = Call("none", <<>>, x, Built(x))
    /\ panicked = FALSE
    /\ k = 0

\* The caller keeps the outcome r of an operation on x in x; a panic aborts.
Keep(op, r) ==
    /\ ~panicked
    /\ x' = IF r.panic THEN x ELSE r.w
    /\ panicked' = r.panic
    /\ last' = Call(op, <<>>, x, r)
    /\ UNCHANGED <<signed, overflow_checks, y, born, k>>

\* x = x + y
Add == Keep("add", add(x, y))

\* x = x + s
AddScalar == Keep("add_scalar", add_scalar(x, into(y)))

\* x = x - y
Sub == Keep("sub", sub(x, y))

\* x = x - s
SubScalar == Keep("sub_scalar", sub_scalar(x, into(y)))

\* x += s
AddAssign == Keep("add_assign", add_assign(x, into(y)))

\* x -= s
SubAssign == Keep("sub_assign", sub_assign(x, into(y)))

Next == Add \/ AddScalar \/ Sub \/ SubScalar \/ AddAssign \/ SubAssign

Spec == Init /\ [][Next]_vars

-----------------------------------------------------------------------------
(* Equality: x == y, x == s and x.total_eq(&y) on two constructed WrapNums. *)

\* Right operands compared with x: promoted scalars, and WrapNums sharing
\* both, one or none of x's bounds.
Others(w) ==
    {from(s).w : s \in T}
    \cup {WrapNum(s, w.min, w.max) : s \in T}
    \cup {WrapNum(s, w.min, TMax) : s \in T}
    \cup {WrapNum(s, TMin, w.max) : s \in T}

EqInit ==
    /\ signed \in BOOLEAN
    /\ overflow_checks \in BOOLEAN
    /\ x \in Constructible
    /\ y \in Others(x)
    /\ born = Window(x)
    /\ last = Call("none", <<>>, x, Built(x))
    /\ panicked = FALSE
    /\ k = 0

Compared(op, res) ==
    /\ last' = [Call(op, <<>>, x, Built(x)) EXCEPT !.res = res]
    /\ UNCHANGED <<signed, overflow_checks, x, y, born, panicked, k>>

\* x == y
Eq == Compared("eq", eq(x, y))

\* x == s
EqScalar == Compared("eq_scalar", eq_scalar(x, into(y)))

\* x.total_eq(&y)
TotalEq == Compared("total_eq", total_eq(x, y))

EqNext == Eq \/ EqScalar \/ TotalEq

EqSpec == EqInit /\ [][EqNext]_vars

-----------------------------------------------------------------------------
(* The counter loop of tests::months: new(max), then `+= 1` repeatedly.     *)

CycleInit ==
    /\ signed \in BOOLEAN
    /\ overflow_checks \in BOOLEAN
    /\ \E max \in T : x = new(max).w
    /\ y = from(1).w
    /\ born = Window(x)
    /\ last = Call("none", <<>>, x, Built(x))
    /\ panicked = FALSE
    /\ k = 0

\* months += 1
Increment ==
    /\ ~panicked
    /\ k < MaxIncr
    /\ LET r == add_assign(x, 1)
       IN /\ x' = IF r.panic THEN x ELSE r.w
          /\ panicked' = r.panic
          /\ last' = Call("add_assign", <<1>>, x, r)
    /\ k' = k + 1
    /\ UNCHANGED <<signed, overflow_checks, y, born>>

CycleNext == Increment

CycleSpec == CycleInit /\ [][CycleNext]_vars

-----------------------------------------------------------------------------
(* wrapped_result as a function of its own: applied to any value of T and   *)
(* any window min < max, then again to what it returned.                    *)

NormInit ==
    /\ signed \in BOOLEAN
    /\ overflow_checks \in BOOLEAN
    /\ \E value \in T, min \in T, max \in T :
           /\ min < max
           /\ x = WrapNum(value, min, max)
    /\ y = x
    /\ born = Window(x)
    /\ last = Call("none", <<>>, x, Built(x))
    /\ panicked = FALSE
    /\ k = 0

\* value = wrapped_result(value, min, max)
Normalize ==
    /\ ~panicked
    /\ k < MaxApply
    /\ LET r == wrapped_result(Lit(x.value), x.min, x.max)
       IN /\ x' = IF r.panic THEN x ELSE [x EXCEPT !.value = r.val]
          /\ panicked' = r.panic
          /\ last' = Call("wrapped_result", <<>>, x, r)
    /\ k' = k + 1
    /\ UNCHANGED <<signed, overflow_checks, y, born>>

NormNext == Normalize

NormSpec == NormInit /\ [][NormNext]_vars

-----------------------------------------------------------------------------
(* Properties.                                                             *)

Arithmetic == {"add", "add_scalar", "sub", "sub_scalar", "add_assign", "sub_assign"}
Additions == {"add", "add_scalar", "add_assign"}
Subtractions == {"sub", "sub_scalar", "sub_assign"}

\* min <= value <= max, what construction is meant to establish.
Valid(w) == w.min <= w.value /\ w.value <= w.max
\* min <= value < max, the window arithmetic is meant to wrap into.
InWindow(w) == w.min <= w.value /\ w.value < w.max
Range(w) == w.max - w.min
\* The non-negative remainder of the exact integer n by m > 0.
EuclidMod(n, m) == n % m
\* The right operand's value.
Rhs == into(y)

\* C1: starting from a WrapNum with min <= value <= max and max > min, after
\* any sequence of arithmetic operations with any operand of T the value
\* satisfies min <= value < max.  Stated for the operations that complete and
\* in which no primitive operation overflowed T.
C1_WindowInvariant ==
    (/\ last.op \in Arithmetic
     /\ ~panicked
     /\ ~last.ovf
     /\ born.valid
     /\ born.max > born.min)
    => InWindow(x)

\* C2: for a with min <= value <= max and range = max - min > 0 and any scalar s
\* (negative ones included), a + s, a + WrapNum{value: s} and a += s give
\* value = ((a.value + s - a.min) mod range) + a.min with the Euclidean remainder.
\* Stated for the additions that complete without any overflow of T.
C2_AdditionWrapLaw ==
    (/\ last.op \in Additions
     /\ ~panicked
     /\ ~last.ovf
     /\ Valid(last.lhs)
     /\ Range(last.lhs) > 0)
    => x.value = EuclidMod(last.lhs.value + Rhs - last.lhs.min, Range(last.lhs))
                 + last.lhs.min

\* C3: for a with value in [min, max), range > 0 (min may be non-zero) and
\* 0 <= s <= range, a - s, a - WrapNum{value: s} and a -= s give
\* value = ((a.value - s - a.min) mod range) + a.min with the Euclidean remainder.
\* Stated for the subtractions that complete without any overflow of T.
C3_SubtractionWrapsBackward ==
    (/\ last.op \in Subtractions
     /\ ~panicked
     /\ ~last.ovf
     /\ InWindow(last.lhs)
     /\ 0 <= Rhs
     /\ Rhs <= Range(last.lhs))
    => x.value = EuclidMod(last.lhs.value - Rhs - last.lhs.min, Range(last.lhs))
                 + last.lhs.min

\* C4: for unsigned T, a with min <= value <= max and any scalar s, no
\* intermediate expression that a - s or a -= s evaluates falls below 0 or
\* above T's maximum.  Stated for the windows with max > min.
C4_NoUnsignedUnderflow ==
    (/\ ~signed
     /\ last.op \in {"sub_scalar", "sub_assign"}
     /\ Valid(last.lhs)
     /\ Range(last.lhs) > 0)
    => ~last.ovf

\* C5: every constructor call (new, new_max, new_min_max, From, Default, the six
\* wrap! forms), for every argument of T, either panics or returns a WrapNum
\* with min <= value <= max.
C5_ConstructionInvariant ==
    (last.op # "none" /\ ~panicked) => Valid(x)

\* C6: arithmetic never changes the bounds: after +=, -= and after every
\* x = x + b, x + s, x - b, x - s the WrapNum has the left operand's min and max,
\* whatever the right operand's bounds are, and so the min and max it was
\* constructed with.
C6_BoundsUnchanged ==
    last.op \in Arithmetic =>
        /\ x.min = last.lhs.min
        /\ x.max = last.lhs.max
        /\ x.min = born.min
        /\ x.max = born.max

\* C6 witness: x + y has completed and changed the value, y's bounds being
\* others than x's.
C6_Witness ==
    /\ last.op = "add"
    /\ ~panicked
    /\ x.value # last.lhs.value
    /\ y.min # x.min
    /\ y.max # x.max

\* C7: x == y is exactly x.value = y.value whatever the bounds, x == s is exactly
\* x.value = s, and total_eq is exactly equality of value, min and max; so equal
\* values in different windows are == and not total_eq.
C7_TwoEqualities ==
    /\ last.op = "eq" => (last.res <=> x.value = y.value)
    /\ last.op = "eq_scalar" => (last.res <=> x.value = Rhs)
    /\ last.op = "total_eq" => (last.res <=> x = y)
    /\ (x.value = y.value /\ (x.min # y.min \/ x.max # y.max)) =>
           /\ last.op = "eq" => last.res
           /\ last.op = "total_eq" => ~last.res

\* C7 witness: == has answered true for equal values in different windows.
C7_Witness ==
    /\ last.op = "eq"
    /\ last.res
    /\ x.min < x.max
    /\ x.min # y.min
    /\ x.max # y.max

\* C8: from new(max) with max > 0, after k steps `+= 1` the value is k mod max:
\* it is 0 exactly at the multiples of max (first after max steps), no step
\* panics, and the value is never max after the first step.
C8_IncrementCycle ==
    born.max > 0 =>
        /\ ~panicked
        /\ x.value = EuclidMod(k, born.max)
        /\ (k > 0 /\ x.value = 0) => k >= born.max
        /\ k = born.max => x.value = 0
        /\ k > 0 => x.value # x.max

\* C8 witness: the counter is back at 0 after exactly max > 2 steps.
C8_Witness ==
    /\ born.max > 2
    /\ k = born.max
    /\ last.op = "add_assign"
    /\ x.value = 0

\* C9: for a with value in [min, max), range > 0 and s > range, a - s and
\* a -= s give a value in [min, max) congruent to a.value - s modulo range.
\* Stated for the subtractions that complete without any overflow of T.
C9_MultiWindowUnderflow ==
    (/\ last.op \in {"sub_scalar", "sub_assign"}
     /\ ~panicked
     /\ ~last.ovf
     /\ InWindow(last.lhs)
     /\ Range(last.lhs) > 0
     /\ Rhs > Range(last.lhs))
    => /\ InWindow(x)
       /\ EuclidMod(x.value - (last.lhs.value - Rhs), Range(last.lhs)) = 0

\* C10: wrapped_result is idempotent: for min < max and any value of T (y holds
\* it), a second application, to what the first returned, completes and returns
\* the same value.  (A first application that panics returns nothing to re-apply.)
C10_NormalizeIdempotent ==
    k >= 2 => (~panicked /\ x.value = last.lhs.value)

\* C10 witness: a value outside [min, max] was moved by the first application
\* and kept by the second.
C10_Witness ==
    /\ k = 2
    /\ ~panicked
    /\ ~born.valid
    /\ x.value = last.lhs.value
    /\ x.value # x.min

====
